---- MODULE Spec2Model ----
(***************************************************************************)
(* Session booking core of Mentor-Connect: the Session model (schema,      *)
(* pre-save hook, instance methods), the session controller's handlers and *)
(* the rating aggregate written to the mentor's User document.             *)
(*                                                                         *)
(* Time is counted in hours: a Date is a natural number of hours, a        *)
(* duration of 1 or 3 stands for 60 or 180 minutes, and the 2*60*60*1000   *)
(* ms of canBeCancelled is CancelWindow = 2.  Ratings averages are kept in *)
(* tenths (40 is 4.0), which is what Math.round(x * 10) / 10 stores.       *)
(***************************************************************************)
EXTENDS Integers, Sequences, FiniteSets, TLC

\* ---------------------------------------------------------------- bounds
MaxSessions == 2
MaxNow == 1
MaxStart == 3
MaxRequests == 2

\* ------------------------------------------------------ program constants
CancelWindow == 2

\* null / undefined of a Date or Number path
Null == 0 - 1
\* null / undefined of a String path
NoStr == "null"

\* ------------------------------------------------------------------ users
Students == {"s1", "s2"}
Mentors == {"m1", "m2"}
\* m0 is a mentor whose account is deactivated; "nobody" is no user at all
UserIds == Students \cup Mentors \cup {"m0"}
MentorIdInputs == {"m1", "m2", "m0", "s2", "nobody"}

role(u) == IF u \in Students THEN "student" ELSE "mentor"
isActive(u) == u # "m0"
\* protect: only an existing, active user gets past authentication
Actors == {u \in UserIds : isActive(u)}

\* userSchema.stats, averageRating in tenths
StatsDefault ==
  [totalSessions |-> 0, completedSessions |-> 0, averageRating |-> 0, totalRatings |-> 0]

\* --------------------------------------------------------- session schema
StatusEnum == {"pending", "approved", "rejected", "completed", "cancelled", "no-show"}
CancelledByEnum == {"student", "mentor", "system"}
Durations == {1, 3}
Ratings == {4, 5}

\* a new document with the schema's defaults
NewSession(student, mentor, scheduledDate, duration) ==
  [student |-> student, mentor |-> mentor,
   scheduledDate |-> scheduledDate, duration |-> duration,
   status |-> "pending",
   meetingLink |-> NoStr,
   rating |-> Null, review |-> NoStr, ratedAt |-> Null,
   studentFeedbackRating |-> Null,
   approvedAt |-> Null, declinedAt |-> Null,
   actualStartTime |-> Null, actualEndTime |-> Null, actualDuration |-> Null,
   cancellationReason |-> NoStr, cancelledBy |-> NoStr, cancelledAt |-> Null,
   mentorResponse |-> NoStr]

\* schema validation run by save(): the enum validators
Validates(doc) ==
  /\ doc.status \in StatusEnum
  /\ doc.cancelledBy \in CancelledByEnum \cup {NoStr}
  /\ doc.rating = Null \/ (doc.rating >= 1 /\ doc.rating <= 5)

\* the pre-save hook without its stamp of the cancellation time
PreSave_noStamp(old, doc, t) ==
  IF doc.actualStartTime # Null /\ doc.actualEndTime # Null
     /\ (doc.actualDuration = Null \/ doc.actualDuration = 0)
  THEN [doc EXCEPT !.actualDuration = 60 * (doc.actualEndTime - doc.actualStartTime)]
  ELSE doc

\* sessionSchema.pre('save'); old is the document as loaded (isModified)
PreSave(old, doc, t) ==
  LET d1 == IF doc.actualStartTime # Null /\ doc.actualEndTime # Null
               /\ (doc.actualDuration = Null \/ doc.actualDuration = 0)
            THEN [doc EXCEPT !.actualDuration = 60 * (doc.actualEndTime - doc.actualStartTime)]
            ELSE doc
  IN IF d1.status # old.status /\ d1.status \in {"cancelled", "rejected"}
        /\ d1.cancelledAt = Null
     THEN [d1 EXCEPT !.cancelledAt = t]
     ELSE d1

\* canBeCancelled with the window closed one instant late (>= for >)
canBeCancelled_atWindow(doc, t) ==
  LET timeDiff == doc.scheduledDate - t
  IN timeDiff >= CancelWindow /\ doc.status \in {"pending", "approved"}

\* sessionSchema.methods.canBeCancelled
canBeCancelled(doc, t) ==
  LET timeDiff == doc.scheduledDate - t
  IN timeDiff > CancelWindow /\ doc.status \in {"pending", "approved"}

\* sessionSchema.methods.markCompleted, before its save()
markCompletedDoc(doc, actualEndTime) ==
  LET d1 == [doc EXCEPT !.status = "completed", !.actualEndTime = actualEndTime]
  IN IF d1.actualStartTime = Null
     THEN [d1 EXCEPT !.actualStartTime = doc.scheduledDate]
     ELSE d1

\* ------------------------------------------------------------ state
VARIABLES
  db,          \* the sessions collection: a sequence, a session's _id is its index
  stats,       \* stats[m]: the stats subdocument of mentor m's User document
  lastUpdate,  \* lastUpdate[m]: the update document of the latest User.findByIdAndUpdate(m, ...)
  now,         \* the clock read by new Date()
  reqs         \* reqs[k]: the request handler k is running, with its position

vars == <<db, stats, lastUpdate, now, reqs>>

Ids == 1..MaxSessions
Exists(D, id) == id \in 1..Len(D)

\* document.save() of the document loaded as old and changed to doc:
\* validation first, then the pre-save hook, then an update that sets the
\* modified paths of the stored document
SaveOk(doc) == Validates(doc)
Saved(D, id, old, doc, t) ==
  LET d2 == PreSave(old, doc, t)
  IN [D EXCEPT ![id] = [f \in DOMAIN d2 |-> IF d2[f] # old[f] THEN d2[f] ELSE D[id][f]]]

\* ------------------------------------------------------------ createSession
\* the Session.findOne of createSession: the sessions that make it answer 400
conflictingSession(D, mentorId, requestedDate, duration) ==
  {i \in 1..Len(D) :
     /\ D[i].mentor = mentorId
     /\ D[i].scheduledDate >= requestedDate - duration
     /\ D[i].scheduledDate <= requestedDate + duration
     /\ D[i].status \in {"approved", "pending"}}

\* createSession with the date validator accepting a start equal to now
createSession_atNow(D, t, actor, mentorId, scheduledDate, duration) ==
  IF role(actor) # "student" THEN [code |-> 403, db |-> D]
  ELSE IF scheduledDate < t THEN [code |-> 400, db |-> D]
  ELSE IF mentorId \notin UserIds \/ role(mentorId) # "mentor" THEN [code |-> 404, db |-> D]
  ELSE IF ~isActive(mentorId) THEN [code |-> 400, db |-> D]
  ELSE IF conflictingSession(D, mentorId, scheduledDate, duration) # {}
       THEN [code |-> 400, db |-> D]
  ELSE [code |-> 201,
        db |-> Append(D, NewSession(actor, mentorId, scheduledDate, duration))]

\* createSession without the check of mentor.isActive
createSession_noActiveCheck(D, t, actor, mentorId, scheduledDate, duration) ==
  IF role(actor) # "student" THEN [code |-> 403, db |-> D]
  ELSE IF scheduledDate <= t THEN [code |-> 400, db |-> D]
  ELSE IF mentorId \notin UserIds \/ role(mentorId) # "mentor" THEN [code |-> 404, db |-> D]
  ELSE IF conflictingSession(D, mentorId, scheduledDate, duration) # {}
       THEN [code |-> 400, db |-> D]
  ELSE [code |-> 201,
        db |-> Append(D, NewSession(actor, mentorId, scheduledDate, duration))]

createSession(D, t, actor, mentorId, scheduledDate, duration) ==
  IF role(actor) # "student" THEN [code |-> 403, db |-> D]
  ELSE IF scheduledDate <= t THEN [code |-> 400, db |-> D]
  ELSE IF mentorId \notin UserIds \/ role(mentorId) # "mentor" THEN [code |-> 404, db |-> D]
  ELSE IF ~isActive(mentorId) THEN [code |-> 400, db |-> D]
  ELSE IF conflictingSession(D, mentorId, scheduledDate, duration) # {}
       THEN [code |-> 400, db |-> D]
  ELSE [code |-> 201,
        db |-> Append(D, NewSession(actor, mentorId, scheduledDate, duration))]

\* ------------------------------------------------------ updateSessionStatus
updateStatusDoc(doc, status, cancellationReason) ==
  LET d1 == [doc EXCEPT !.status = status]
  IN IF cancellationReason # NoStr
     THEN [d1 EXCEPT !.cancellationReason = cancellationReason, !.cancelledBy = "mentor"]
     ELSE d1

updateSessionStatus(D, t, actor, id, status, cancellationReason) ==
  IF role(actor) # "mentor" THEN [code |-> 403, db |-> D]
  ELSE IF ~Exists(D, id) THEN [code |-> 404, db |-> D]
  ELSE IF D[id].mentor # actor THEN [code |-> 403, db |-> D]
  ELSE LET doc == updateStatusDoc(D[id], status, cancellationReason)
       IN IF SaveOk(doc) THEN [code |-> 200, db |-> Saved(D, id, D[id], doc, t)]
          ELSE [code |-> 500, db |-> D]

\* ------------------------------------------------------------ cancelSession
cancelDoc(doc, t, userRole, cancellationReason) ==
  [doc EXCEPT !.status = "cancelled",
              !.cancellationReason =
                 IF cancellationReason # NoStr THEN cancellationReason
                 ELSE "No reason provided",
              !.cancelledBy = userRole,
              !.cancelledAt = t]

\* cancelSession without the check that the caller is a participant
cancelSession_anyCaller(D, t, actor, id, cancellationReason) ==
  IF ~Exists(D, id) THEN [code |-> 404, db |-> D]
  ELSE IF ~canBeCancelled(D[id], t) THEN [code |-> 400, db |-> D]
  ELSE LET doc == cancelDoc(D[id], t, role(actor), cancellationReason)
       IN IF SaveOk(doc) THEN [code |-> 200, db |-> Saved(D, id, D[id], doc, t)]
          ELSE [code |-> 500, db |-> D]

cancelSession(D, t, actor, id, cancellationReason) ==
  IF ~Exists(D, id) THEN [code |-> 404, db |-> D]
  ELSE IF ~(D[id].student = actor \/ D[id].mentor = actor) THEN [code |-> 403, db |-> D]
  ELSE IF ~canBeCancelled(D[id], t) THEN [code |-> 400, db |-> D]
  ELSE LET doc == cancelDoc(D[id], t, role(actor), cancellationReason)
       IN IF SaveOk(doc) THEN [code |-> 200, db |-> Saved(D, id, D[id], doc, t)]
          ELSE [code |-> 500, db |-> D]

\* -------------------------------------------------- respondToSessionRequest
respondDoc(doc, t, action, message, proposedDateTime) ==
  LET d1 == IF action = "accept"
            THEN [doc EXCEPT !.status = "confirmed",
                             !.scheduledDate =
                                IF proposedDateTime # Null THEN proposedDateTime ELSE @]
            ELSE IF action = "reject" THEN [doc EXCEPT !.status = "cancelled"]
            ELSE doc
  IN IF message # NoStr THEN [d1 EXCEPT !.mentorResponse = message] ELSE d1

respondToSessionRequest(D, t, actor, id, action, message, proposedDateTime) ==
  IF role(actor) # "mentor" THEN [code |-> 403, db |-> D]
  ELSE IF ~(Exists(D, id) /\ D[id].mentor = actor /\ D[id].status = "pending")
       THEN [code |-> 404, db |-> D]
  ELSE LET doc == respondDoc(D[id], t, action, message, proposedDateTime)
       IN IF SaveOk(doc) THEN [code |-> 200, db |-> Saved(D, id, D[id], doc, t)]
          ELSE [code |-> 500, db |-> D]

\* ------------------------------------------------ approveSession / decline
approveDoc(doc, t, meetingLink) ==
  [doc EXCEPT !.status = "confirmed", !.meetingLink = meetingLink, !.approvedAt = t]

approveSession(D, t, actor, id, meetingLink) ==
  IF role(actor) # "mentor" THEN [code |-> 403, db |-> D]
  ELSE IF ~Exists(D, id) THEN [code |-> 404, db |-> D]
  ELSE IF D[id].mentor # actor THEN [code |-> 403, db |-> D]
  ELSE IF D[id].status # "pending" THEN [code |-> 400, db |-> D]
  ELSE LET doc == approveDoc(D[id], t, meetingLink)
       IN IF SaveOk(doc) THEN [code |-> 200, db |-> Saved(D, id, D[id], doc, t)]
          ELSE [code |-> 500, db |-> D]

declineDoc(doc, t) ==
  [doc EXCEPT !.status = "declined", !.declinedAt = t]

declineSession(D, t, actor, id) ==
  IF role(actor) # "mentor" THEN [code |-> 403, db |-> D]
  ELSE IF ~Exists(D, id) THEN [code |-> 404, db |-> D]
  ELSE IF D[id].mentor # actor THEN [code |-> 403, db |-> D]
  ELSE IF D[id].status # "pending" THEN [code |-> 400, db |-> D]
  ELSE LET doc == declineDoc(D[id], t)
       IN IF SaveOk(doc) THEN [code |-> 200, db |-> Saved(D, id, D[id], doc, t)]
          ELSE [code |-> 500, db |-> D]

\* -------------------------------------------------------------- rateSession
\* the already-rated check left out
alreadyRated_never(doc) == FALSE

\* if (session.rating): null, undefined and 0 are falsy
alreadyRated(doc) == doc.rating # Null /\ doc.rating # 0

rateDoc(doc, t, rating, review) ==
  [doc EXCEPT !.rating = rating, !.review = review, !.ratedAt = t]

\* Session.find({mentor, rating: {$exists: true, $ne: null}})
mentorSessions(D, m) == {i \in 1..Len(D) : D[i].mentor = m /\ D[i].rating # Null}

RECURSIVE totalRating(_, _)
totalRating(D, S) ==
  IF S = {} THEN 0
  ELSE LET i == CHOOSE x \in S : TRUE IN D[i].rating + totalRating(D, S \ {i})

\* Math.round((sum / n) * 10), the rounded average in tenths (n > 0)
roundTenths(sum, n) == (20 * sum + n) \div (2 * n)

\* the update document rateSession passes to User.findByIdAndUpdate
NoUpdate == [averageRating |-> Null, totalRatings |-> Null]
ratingUpdate(D, m) ==
  LET S == mentorSessions(D, m)
  IN [averageRating |-> roundTenths(totalRating(D, S), Cardinality(S)),
      totalRatings |-> Cardinality(S)]

\* User.findByIdAndUpdate(id, upd) under the schema's strict mode: a path of
\* the update that the User schema does not define is dropped.  The schema
\* defines the four stats.* paths and no top-level averageRating/totalRatings;
\* upd is a function from paths to values.
StatsPath(f) ==
  CASE f = "totalSessions" -> "stats.totalSessions"
    [] f = "completedSessions" -> "stats.completedSessions"
    [] f = "averageRating" -> "stats.averageRating"
    [] f = "totalRatings" -> "stats.totalRatings"

findByIdAndUpdate(st, upd) ==
  [f \in DOMAIN st |-> IF StatsPath(f) \in DOMAIN upd THEN upd[StatsPath(f)] ELSE st[f]]

\* the part of rateSession after session.save(): scan and write
aggregateAfterRate(D, ST, LU, m) ==
  IF mentorSessions(D, m) # {}
  THEN [stats |-> [ST EXCEPT ![m] = findByIdAndUpdate(ST[m], ratingUpdate(D, m))],
        lastUpdate |-> [LU EXCEPT ![m] = ratingUpdate(D, m)]]
  ELSE [stats |-> ST, lastUpdate |-> LU]

\* rateSession without the check that the session is completed
rateSession_anyStatus(D, ST, LU, t, actor, id, rating, review) ==
  LET fail(c) == [code |-> c, db |-> D, stats |-> ST, lastUpdate |-> LU]
  IN IF role(actor) # "student" THEN fail(403)
     ELSE IF rating = Null \/ rating = 0 \/ rating < 1 \/ rating > 5 THEN fail(400)
     ELSE IF ~Exists(D, id) THEN fail(404)
     ELSE IF D[id].student # actor THEN fail(403)
     ELSE IF alreadyRated(D[id]) THEN fail(400)
     ELSE LET doc == rateDoc(D[id], t, rating, review)
          IN IF ~SaveOk(doc) THEN fail(500)
             ELSE LET D2 == Saved(D, id, D[id], doc, t)
                      agg == aggregateAfterRate(D2, ST, LU, D[id].mentor)
                  IN [code |-> 200, db |-> D2,
                      stats |-> agg.stats, lastUpdate |-> agg.lastUpdate]

rateSession(D, ST, LU, t, actor, id, rating, review) ==
  LET fail(c) == [code |-> c, db |-> D, stats |-> ST, lastUpdate |-> LU]
  IN IF role(actor) # "student" THEN fail(403)
     ELSE IF rating = Null \/ rating = 0 \/ rating < 1 \/ rating > 5 THEN fail(400)
     ELSE IF ~Exists(D, id) THEN fail(404)
     ELSE IF D[id].student # actor THEN fail(403)
     ELSE IF D[id].status # "completed" THEN fail(400)
     ELSE IF alreadyRated(D[id]) THEN fail(400)
     ELSE LET doc == rateDoc(D[id], t, rating, review)
          IN IF ~SaveOk(doc) THEN fail(500)
             ELSE LET D2 == Saved(D, id, D[id], doc, t)
                      agg == aggregateAfterRate(D2, ST, LU, D[id].mentor)
                  IN [code |-> 200, db |-> D2,
                      stats |-> agg.stats, lastUpdate |-> agg.lastUpdate]

\* --------------------------------------------------------- getDashboardData
\* $match {mentor, 'feedback.studentFeedback.rating': {$exists: true}}
feedbackSessions(D, m) ==
  {i \in 1..Len(D) : D[i].mentor = m /\ D[i].studentFeedbackRating # Null}

RECURSIVE totalFeedback(_, _)
totalFeedback(D, S) ==
  IF S = {} THEN 0
  ELSE LET i == CHOOSE x \in S : TRUE
       IN D[i].studentFeedbackRating + totalFeedback(D, S \ {i})

\* the averageRating (in tenths) and totalRatings of a mentor's dashboard
getDashboardData(D, m) ==
  LET S == feedbackSessions(D, m)
  IN IF S # {}
     THEN [averageRating |-> roundTenths(totalFeedback(D, S), Cardinality(S)),
           totalRatings |-> Cardinality(S)]
     ELSE [averageRating |-> 0, totalRatings |-> 0]

\* ------------------------------------------------------------ updateProfile
\* the fields updateProfile deletes from the request body
ProtectedPaths == {"password", "email", "role", "_id", "createdAt", "updatedAt"}

\* runValidators: stats.averageRating has min 0 and max 5 (50 tenths)
UpdateValidates(upd) ==
  "stats.averageRating" \in DOMAIN upd =>
    (upd["stats.averageRating"] >= 0 /\ upd["stats.averageRating"] <= 50)

\* PUT /api/auth/profile on the caller's own User document; st is its stats
updateProfile(st, body) ==
  LET updateData == [f \in DOMAIN body \ ProtectedPaths |-> body[f]]
  IN IF UpdateValidates(updateData)
     THEN [code |-> 200, stats |-> findByIdAndUpdate(st, updateData)]
     ELSE [code |-> 400, stats |-> st]

\* --------------------------------------------------------------- actions
\* a handler slot: the request's inputs, the document it loaded (doc), the
\* update document it computed (upd), where it stands (pc) and its answer
Slots == 1..MaxRequests
NoDoc == NewSession(NoStr, NoStr, Null, Null)
IdleRequest ==
  [op |-> "none", pc |-> "idle", code |-> 0, actor |-> NoStr, id |-> 0,
   mentorId |-> NoStr, scheduledDate |-> Null, duration |-> Null,
   rating |-> Null, review |-> NoStr, doc |-> NoDoc, upd |-> NoUpdate,
   status |-> NoStr, cancellationReason |-> NoStr, meetingLink |-> NoStr]

Init ==
  /\ db = <<>>
  /\ stats = [m \in Mentors |-> StatsDefault]
  /\ lastUpdate = [m \in Mentors |-> NoUpdate]
  /\ now = 0
  /\ reqs = [k \in Slots |-> IdleRequest]

Tick ==
  /\ now < MaxNow
  /\ now' = now + 1
  /\ UNCHANGED <<db, stats, lastUpdate, reqs>>

\* One action per route of the sessions router; each takes the sets its
\* request is drawn from.  A request that is refused leaves the state alone.
CreateSession(actors, mentorIds, starts, durations) ==
  /\ Len(db) < MaxSessions
  /\ \E actor \in actors, mentorId \in mentorIds,
        scheduledDate \in starts, duration \in durations :
       db' = createSession(db, now, actor, mentorId, scheduledDate, duration).db
  /\ UNCHANGED <<stats, lastUpdate, now, reqs>>

UpdateSessionStatus(actors, statuses, reasons) ==
  /\ \E actor \in actors, id \in 1..Len(db), status \in statuses, reason \in reasons :
       db' = updateSessionStatus(db, now, actor, id, status, reason).db
  /\ UNCHANGED <<stats, lastUpdate, now, reqs>>

CancelSession(actors, reasons) ==
  /\ \E actor \in actors, id \in 1..Len(db), reason \in reasons :
       db' = cancelSession(db, now, actor, id, reason).db
  /\ UNCHANGED <<stats, lastUpdate, now, reqs>>

RespondToSessionRequest(actors, actions, messages, proposeds) ==
  /\ \E actor \in actors, id \in 1..Len(db), action \in actions,
        message \in messages, proposed \in proposeds :
       db' = respondToSessionRequest(db, now, actor, id, action, message, proposed).db
  /\ UNCHANGED <<stats, lastUpdate, now, reqs>>

ApproveSession(actors, links) ==
  /\ \E actor \in actors, id \in 1..Len(db), meetingLink \in links :
       db' = approveSession(db, now, actor, id, meetingLink).db
  /\ UNCHANGED <<stats, lastUpdate, now, reqs>>

DeclineSession(actors) ==
  /\ \E actor \in actors, id \in 1..Len(db) :
       db' = declineSession(db, now, actor, id).db
  /\ UNCHANGED <<stats, lastUpdate, now, reqs>>

RateSession(actors, ratings, reviews) ==
  /\ \E actor \in actors, id \in 1..Len(db), rating \in ratings, review \in reviews :
       LET r == rateSession(db, stats, lastUpdate, now, actor, id, rating, review)
       IN /\ db' = r.db
          /\ stats' = r.stats
          /\ lastUpdate' = r.lastUpdate
  /\ UNCHANGED <<now, reqs>>

\* session.markCompleted(actualEndTime): a method of the model that no route
\* calls; an operator process runs it.  Without an argument actualEndTime is
\* new Date().
MarkCompleted(supplieds) ==
  /\ \E id \in 1..Len(db), supplied \in supplieds :
       LET doc == markCompletedDoc(db[id], IF supplied = Null THEN now ELSE supplied)
       IN /\ SaveOk(doc)
          /\ db' = Saved(db, id, db[id], doc, now)
  /\ UNCHANGED <<stats, lastUpdate, now, reqs>>

\* a user updates their own profile; the model keeps the stats of mentors
UpdateProfile(actors, bodies) ==
  /\ \E actor \in actors, body \in bodies :
       stats' = IF actor \in Mentors
                THEN [stats EXCEPT ![actor] = updateProfile(stats[actor], body).stats]
                ELSE stats
  /\ UNCHANGED <<db, lastUpdate, now, reqs>>

\* ------------------------------------------- Spec: the sessions API
\* All routes, up to MaxSessions sessions of mentor m1 booked by student s1;
\* s2 and m2 are the other student and the other mentor.
StatusInputs == {"approved", "rejected", "completed", "confirmed"}

\* request bodies of a profile update: a bio; stats together with a role;
\* an average rating above the schema's maximum
ProfileBodies ==
  {("bio" :> "hello"),
   ("stats.averageRating" :> 50) @@ ("stats.totalRatings" :> 9) @@ ("role" :> "student"),
   ("stats.averageRating" :> 99)}

Next ==
  \/ Tick
  \/ CreateSession({"s1", "m1"}, {"m1", "m0", "s2", "nobody"}, 0..MaxStart, Durations)
  \/ UpdateSessionStatus({"m1", "m2", "s1"}, StatusInputs, {NoStr})
  \/ CancelSession({"s1", "m1", "s2"}, {NoStr})
  \/ RespondToSessionRequest({"m1", "m2"}, {"accept", "reject"}, {NoStr}, {Null})
  \/ ApproveSession({"m1", "m2"}, {"https://meet"})
  \/ DeclineSession({"m1", "m2"})
  \/ RateSession({"s1", "s2"}, {5, 0}, {NoStr})
  \/ UpdateProfile({"m1", "s1"}, ProfileBodies)

Spec == Init /\ [][Next]_vars

\* ------------------------------- LifeSpec: the lifecycle of one session
\* One one-hour session of mentor m1 booked by student s1, as createSession
\* stores it at time 0, then every operation on it with every input, the
\* model's markCompleted included.  The session starts at MaxStart - 1 or at
\* MaxStart, so that the clock passes on both sides of the cancellation
\* window.
AllStatusInputs == StatusEnum \cup {"confirmed", "declined"}

LifeInit ==
  /\ \E scheduledDate \in {MaxStart - 1, MaxStart}, duration \in {1} :
       db = <<NewSession("s1", "m1", scheduledDate, duration)>>
  /\ stats = [m \in Mentors |-> StatsDefault]
  /\ lastUpdate = [m \in Mentors |-> NoUpdate]
  /\ now = 0
  /\ reqs = [k \in Slots |-> IdleRequest]

LifeNext ==
  \/ Tick
  \/ UpdateSessionStatus({"m1", "m2"}, AllStatusInputs, {NoStr, "why"})
  \/ CancelSession({"s1", "m1", "s2", "m2"}, {NoStr, "why"})
  \/ RespondToSessionRequest({"m1", "s1"}, {"accept", "reject"}, {NoStr, "msg"},
                             {Null, MaxStart})
  \/ ApproveSession({"m1", "m2"}, {"https://meet"})
  \/ DeclineSession({"m1", "s1"})
  \/ RateSession({"s1", "s2"}, Ratings \cup {0}, {NoStr, "good"})
  \/ MarkCompleted({Null, MaxStart})

LifeSpec == LifeInit /\ [][LifeNext]_vars

\* ------------------------------------ BookSpec: booking and cancelling
\* createSession with every kind of mentorId (mentors, the deactivated
\* mentor, a student, no user), every start up to MaxStart and both
\* durations, by both students and by mentor m1; the students cancel.
BookNext ==
  \/ Tick
  \/ CreateSession({"s1", "s2", "m1"}, MentorIdInputs, 0..MaxStart, Durations)
  \/ CancelSession({"s1", "s2"}, {NoStr})

BookSpec == Init /\ [][BookNext]_vars

\* ------------------- ConcSpec: handlers interleaved at their awaits
\* createSession and rateSession run as the sequence of their database
\* calls; between two calls of one handler the other handlers may run.
\* Two requests are in flight at most (MaxRequests); a slot whose request
\* was answered takes the next request.
Free(k) == reqs[k].pc \in {"idle", "done"}
Answer(k, c) == [reqs EXCEPT ![k].pc = "done", ![k].code = c]

\* createSession up to the mentor lookup (validation, User.findById)
BeginCreate(k, actors, mentorIds, starts, durations) ==
  /\ Free(k)
  /\ Len(db) + Cardinality({j \in Slots : reqs[j].pc \in {"find", "create"}}) < MaxSessions
  /\ \E actor \in actors, mentorId \in mentorIds,
        scheduledDate \in starts, duration \in durations :
       LET r == [IdleRequest EXCEPT !.op = "createSession", !.actor = actor,
                                    !.mentorId = mentorId,
                                    !.scheduledDate = scheduledDate,
                                    !.duration = duration]
           early == createSession(<<>>, now, actor, mentorId, scheduledDate, duration).code
       IN reqs' = [reqs EXCEPT ![k] =
                     IF early = 201 THEN [r EXCEPT !.pc = "find"]
                     ELSE [r EXCEPT !.pc = "done", !.code = early]]
  /\ UNCHANGED <<db, stats, lastUpdate, now>>

\* the Session.findOne for a conflicting session and the answer to it
CreateFind(k) ==
  /\ reqs[k].pc = "find"
  /\ reqs' = IF conflictingSession(db, reqs[k].mentorId, reqs[k].scheduledDate,
                                   reqs[k].duration) # {}
             THEN Answer(k, 400)
             ELSE [reqs EXCEPT ![k].pc = "create"]
  /\ UNCHANGED <<db, stats, lastUpdate, now>>

\* Session.create
CreateInsert(k) ==
  /\ reqs[k].pc = "create"
  /\ db' = Append(db, NewSession(reqs[k].actor, reqs[k].mentorId,
                                 reqs[k].scheduledDate, reqs[k].duration))
  /\ reqs' = [reqs EXCEPT ![k].pc = "done", ![k].code = 201, ![k].id = Len(db) + 1]
  /\ UNCHANGED <<stats, lastUpdate, now>>

\* rateSession: the rating is validated before the first await
BeginRate(k, actors, ratings, reviews) ==
  /\ Free(k)
  /\ \E actor \in actors, id \in 1..Len(db), rating \in ratings, review \in reviews :
       LET r == [IdleRequest EXCEPT !.op = "rateSession", !.actor = actor, !.id = id,
                                    !.rating = rating, !.review = review]
       IN reqs' = [reqs EXCEPT ![k] =
                     IF role(actor) # "student" THEN [r EXCEPT !.pc = "done", !.code = 403]
                     ELSE IF rating = Null \/ rating = 0 \/ rating < 1 \/ rating > 5
                          THEN [r EXCEPT !.pc = "done", !.code = 400]
                     ELSE [r EXCEPT !.pc = "load"]]
  /\ UNCHANGED <<db, stats, lastUpdate, now>>

\* Session.findById and the checks on the loaded document
RateLoad(k) ==
  /\ reqs[k].pc = "load"
  /\ LET id == reqs[k].id
     IN reqs' =
          IF ~Exists(db, id) THEN Answer(k, 404)
          ELSE IF db[id].student # reqs[k].actor THEN Answer(k, 403)
          ELSE IF db[id].status # "completed" THEN Answer(k, 400)
          ELSE IF alreadyRated(db[id]) THEN Answer(k, 400)
          ELSE [reqs EXCEPT ![k].pc = "save", ![k].doc = db[id]]
  /\ UNCHANGED <<db, stats, lastUpdate, now>>

\* session.save() of the rating
RateSave(k) ==
  /\ reqs[k].pc = "save"
  /\ LET doc == rateDoc(reqs[k].doc, now, reqs[k].rating, reqs[k].review)
     IN IF SaveOk(doc)
        THEN /\ db' = Saved(db, reqs[k].id, reqs[k].doc, doc, now)
             /\ reqs' = [reqs EXCEPT ![k].pc = "scan"]
        ELSE /\ db' = db
             /\ reqs' = Answer(k, 500)
  /\ UNCHANGED <<stats, lastUpdate, now>>

\* Session.find of the mentor's rated sessions and the average over them
RateScan(k) ==
  /\ reqs[k].pc = "scan"
  /\ LET m == reqs[k].doc.mentor
     IN reqs' = IF mentorSessions(db, m) # {}
                THEN [reqs EXCEPT ![k].pc = "write", ![k].upd = ratingUpdate(db, m)]
                ELSE Answer(k, 200)
  /\ UNCHANGED <<db, stats, lastUpdate, now>>

\* User.findByIdAndUpdate with the computed average, then the answer
RateWrite(k) ==
  /\ reqs[k].pc = "write"
  /\ LET m == reqs[k].doc.mentor
     IN /\ stats' = [stats EXCEPT ![m] = findByIdAndUpdate(stats[m], reqs[k].upd)]
        /\ lastUpdate' = [lastUpdate EXCEPT ![m] = reqs[k].upd]
  /\ reqs' = Answer(k, 200)
  /\ UNCHANGED <<db, now>>

\* User.findByIdAndUpdate rejects (the store is unavailable): the catch block
\* answers 500; the rating that session.save() stored stays
RateWriteFails(k) ==
  /\ reqs[k].pc = "write"
  /\ reqs' = Answer(k, 500)
  /\ UNCHANGED <<db, stats, lastUpdate, now>>

\* Bookings ask for one hour at 1 or at MaxStart: two bookings overlap
\* exactly when they start together, and of two such bookings made one
\* after the other the second is refused.
ConcNext ==
  \/ \E k \in Slots : BeginCreate(k, {"s1", "m1"}, {"m1"}, {1, MaxStart}, {1})
  \/ \E k \in Slots : CreateFind(k)
  \/ \E k \in Slots : CreateInsert(k)
  \/ UpdateSessionStatus({"m1"}, {"completed"}, {NoStr})
  \/ \E k \in Slots : BeginRate(k, {"s1", "m1"}, Ratings \cup {0}, {NoStr})
  \/ \E k \in Slots : RateLoad(k)
  \/ \E k \in Slots : RateSave(k)
  \/ \E k \in Slots : RateScan(k)
  \/ \E k \in Slots : RateWrite(k)
  \/ \E k \in Slots : RateWriteFails(k)

ConcSpec == Init /\ [][ConcNext]_vars

\* ------------- RaceSpec: responses and cancels of one pending session
\* updateSessionStatus, approveSession, declineSession and cancelSession
\* run as their two database calls: Session.findById with the checks on the
\* loaded document, then session.save() of the document as the handler
\* changed it.  save() writes the paths that differ from the loaded
\* document, whatever the stored document has become.
Load(k, r, c) ==
  IF c = 0 THEN [reqs EXCEPT ![k] = [r EXCEPT !.pc = "save", !.doc = db[r.id]]]
  ELSE [reqs EXCEPT ![k] = [r EXCEPT !.pc = "done", !.code = c]]

SaveStep(k, doc) ==
  IF SaveOk(doc)
  THEN /\ db' = Saved(db, reqs[k].id, reqs[k].doc, doc, now)
       /\ reqs' = Answer(k, 200)
  ELSE /\ db' = db
       /\ reqs' = Answer(k, 500)

UpdateStatusLoad(k, actors, statuses, reasons) ==
  /\ Free(k)
  /\ \E actor \in actors, id \in 1..Len(db), status \in statuses, reason \in reasons :
       LET r == [IdleRequest EXCEPT !.op = "updateSessionStatus", !.actor = actor,
                                    !.id = id, !.status = status,
                                    !.cancellationReason = reason]
       IN reqs' = Load(k, r, IF role(actor) # "mentor" THEN 403
                             ELSE IF db[id].mentor # actor THEN 403
                             ELSE 0)
  /\ UNCHANGED <<db, stats, lastUpdate, now>>

UpdateStatusSave(k) ==
  /\ reqs[k].pc = "save" /\ reqs[k].op = "updateSessionStatus"
  /\ SaveStep(k, updateStatusDoc(reqs[k].doc, reqs[k].status, reqs[k].cancellationReason))
  /\ UNCHANGED <<stats, lastUpdate, now>>

CancelLoad(k, actors, reasons) ==
  /\ Free(k)
  /\ \E actor \in actors, id \in 1..Len(db), reason \in reasons :
       LET r == [IdleRequest EXCEPT !.op = "cancelSession", !.actor = actor, !.id = id,
                                    !.cancellationReason = reason]
       IN reqs' = Load(k, r, IF ~(db[id].student = actor \/ db[id].mentor = actor) THEN 403
                             ELSE IF ~canBeCancelled(db[id], now) THEN 400
                             ELSE 0)
  /\ UNCHANGED <<db, stats, lastUpdate, now>>

CancelSave(k) ==
  /\ reqs[k].pc = "save" /\ reqs[k].op = "cancelSession"
  /\ SaveStep(k, cancelDoc(reqs[k].doc, now, role(reqs[k].actor), reqs[k].cancellationReason))
  /\ UNCHANGED <<stats, lastUpdate, now>>

ApproveLoad(k, actors, links) ==
  /\ Free(k)
  /\ \E actor \in actors, id \in 1..Len(db), meetingLink \in links :
       LET r == [IdleRequest EXCEPT !.op = "approveSession", !.actor = actor, !.id = id,
                                    !.meetingLink = meetingLink]
       IN reqs' = Load(k, r, IF role(actor) # "mentor" THEN 403
                             ELSE IF db[id].mentor # actor THEN 403
                             ELSE IF db[id].status # "pending" THEN 400
                             ELSE 0)
  /\ UNCHANGED <<db, stats, lastUpdate, now>>

ApproveSave(k) ==
  /\ reqs[k].pc = "save" /\ reqs[k].op = "approveSession"
  /\ SaveStep(k, approveDoc(reqs[k].doc, now, reqs[k].meetingLink))
  /\ UNCHANGED <<stats, lastUpdate, now>>

DeclineLoad(k, actors) ==
  /\ Free(k)
  /\ \E actor \in actors, id \in 1..Len(db) :
       LET r == [IdleRequest EXCEPT !.op = "declineSession", !.actor = actor, !.id = id]
       IN reqs' = Load(k, r, IF role(actor) # "mentor" THEN 403
                             ELSE IF db[id].mentor # actor THEN 403
                             ELSE IF db[id].status # "pending" THEN 400
                             ELSE 0)
  /\ UNCHANGED <<db, stats, lastUpdate, now>>

DeclineSave(k) ==
  /\ reqs[k].pc = "save" /\ reqs[k].op = "declineSession"
  /\ SaveStep(k, declineDoc(reqs[k].doc, now))
  /\ UNCHANGED <<stats, lastUpdate, now>>

\* one pending one-hour session of mentor m1 booked by student s1 for
\* MaxStart, far enough ahead to be cancelled at time 0
RaceInit ==
  /\ db = <<NewSession("s1", "m1", MaxStart, 1)>>
  /\ stats = [m \in Mentors |-> StatsDefault]
  /\ lastUpdate = [m \in Mentors |-> NoUpdate]
  /\ now = 0
  /\ reqs = [k \in Slots |-> IdleRequest]

RaceNext ==
  \/ Tick
  \/ \E k \in Slots : UpdateStatusLoad(k, {"m1", "m2"}, {"approved", "rejected"}, {NoStr})
  \/ \E k \in Slots : UpdateStatusSave(k)
  \/ \E k \in Slots : CancelLoad(k, {"s1", "m1", "s2"}, {NoStr})
  \/ \E k \in Slots : CancelSave(k)
  \/ \E k \in Slots : ApproveLoad(k, {"m1", "m2"}, {"https://meet"})
  \/ \E k \in Slots : ApproveSave(k)
  \/ \E k \in Slots : DeclineLoad(k, {"m1", "m2"})
  \/ \E k \in Slots : DeclineSave(k)

RaceSpec == RaceInit /\ [][RaceNext]_vars

\* ======================================================================
\* Properties
\* ======================================================================
Committed(doc) == doc.status \in {"pending", "approved"}

\* sessionSchema.virtual('scheduledEndTime')
scheduledEndTime(doc) == doc.scheduledDate + doc.duration

\* half-open intervals [a0, a1) and [b0, b1) overlap
Overlap(a0, a1, b0, b1) == a0 < b1 /\ b0 < a1

SessionsOverlap(d, e) ==
  Overlap(d.scheduledDate, scheduledEndTime(d), e.scheduledDate, scheduledEndTime(e))

\* C1: in every reachable state no two distinct committed (pending or
\* approved) sessions of the same mentor have overlapping half-open
\* intervals [scheduledDate, scheduledDate + duration).
C1_NoDoubleBooking ==
  \A i \in 1..Len(db), j \in 1..Len(db) :
    (i # j /\ db[i].mentor = db[j].mentor /\ Committed(db[i]) /\ Committed(db[j]))
      => ~SessionsOverlap(db[i], db[j])

\* C2: for every mentor and every proposed interval, createSession with
\* otherwise valid input (a student, a start in the future, an active
\* mentor) succeeds exactly when no committed session of that mentor
\* overlaps the proposed interval under the half-open rule, each existing
\* session measured with its own duration.
C2_CreateIffNoOverlap ==
  \A mentorId \in {m \in Mentors : isActive(m)},
     scheduledDate \in (now + 1)..MaxStart, duration \in Durations :
    LET proposed == NewSession("s1", mentorId, scheduledDate, duration)
        clash == \E i \in 1..Len(db) :
                   /\ db[i].mentor = mentorId
                   /\ Committed(db[i])
                   /\ SessionsOverlap(db[i], proposed)
    IN (createSession(db, now, "s1", mentorId, scheduledDate, duration).code = 201)
         <=> ~clash

\* the transition table of the state machine; declined is stored as rejected
LegalTransitions ==
  {<<"pending", "approved">>, <<"pending", "rejected">>, <<"pending", "cancelled">>,
   <<"approved", "cancelled">>, <<"approved", "completed">>, <<"approved", "no-show">>}

TerminalStatuses == {"rejected", "cancelled", "completed", "no-show"}

\* C4: the transition table is closed: every step that changes a session's
\* status takes it along one of the six listed transitions.
C4_TransitionTableClosed ==
  [][\A id \in 1..Len(db) :
       db'[id].status # db[id].status
         => <<db[id].status, db'[id].status>> \in LegalTransitions]_vars

\* C5: terminal states are absorbing: a session whose status is rejected
\* (declined), cancelled, completed or no-show keeps that status in every
\* step.
C5_TerminalAbsorbing ==
  [][\A id \in 1..Len(db) :
       db[id].status \in TerminalStatuses => db'[id].status = db[id].status]_vars

\* C6: approving a session that is not pending fails and leaves the record
\* as it was, through each endpoint by which its mentor can set it to
\* approved: approve, respond with accept, status update to approved.
C6_ApproveNonPendingRefused ==
  \A id \in 1..Len(db) :
    db[id].status # "pending" =>
      LET m == db[id].mentor
          a == approveSession(db, now, m, id, "https://meet")
          r == respondToSessionRequest(db, now, m, id, "accept", NoStr, Null)
          u == updateSessionStatus(db, now, m, id, "approved", NoStr)
      IN /\ a.code \notin {200, 201} /\ a.db = db
         /\ r.code \notin {200, 201} /\ r.db = db
         /\ u.code \notin {200, 201} /\ u.db = db

\* C7: for the session's student or mentor, cancelSession succeeds exactly
\* when the status is pending or approved and now is strictly more than
\* CancelWindow before scheduledDate; otherwise it answers 400 and leaves
\* the sessions as they were; on success the session is cancelled.
C7_CancelIffPolicy ==
  \A id \in 1..Len(db), actor \in Actors, reason \in {NoStr, "why"} :
    (actor = db[id].student \/ actor = db[id].mentor) =>
      LET r == cancelSession(db, now, actor, id, reason)
          allowed == /\ db[id].status \in {"pending", "approved"}
                     /\ now + CancelWindow < db[id].scheduledDate
      IN /\ (r.code = 200) <=> allowed
         /\ allowed => r.db[id].status = "cancelled"
         /\ ~allowed => (r.code = 400 /\ r.db = db)

\* a session that its student cancelled in time through cancelSession (which
\* alone writes cancelledBy student and the default reason), and a second
\* cancel of it is refused
C7_Witness ==
  \E id \in 1..Len(db) :
    /\ db[id].status = "cancelled"
    /\ db[id].cancelledBy = "student"
    /\ db[id].cancellationReason = "No reason provided"
    /\ db[id].cancelledAt # Null
    /\ db[id].scheduledDate - db[id].cancelledAt > CancelWindow
    /\ cancelSession(db, now, db[id].student, id, NoStr).code = 400

\* C8: once a session carries a rating, every step leaves its rating, review
\* and ratedAt as they are, and a further rateSession by its student with a
\* valid rating answers 400 and changes nothing.
C8_RatedOnce ==
  /\ [](\A id \in 1..Len(db), rating \in Ratings, review \in {NoStr, "good"} :
          db[id].rating # Null =>
            LET r == rateSession(db, stats, lastUpdate, now, db[id].student, id,
                                 rating, review)
            IN r.code = 400 /\ r.db = db /\ r.stats = stats)
  /\ [][\A id \in 1..Len(db) :
          db[id].rating # Null =>
            /\ db'[id].rating = db[id].rating
            /\ db'[id].review = db[id].review
            /\ db'[id].ratedAt = db[id].ratedAt]_vars

\* a completed session rated at an earlier time, so that calls came after it
C8_Witness ==
  \E id \in 1..Len(db) :
    /\ db[id].status = "completed"
    /\ db[id].rating \in Ratings
    /\ db[id].ratedAt # Null /\ db[id].ratedAt < now

\* the rounded mean, in tenths, and the count of mentor m's rated sessions
RatedOf(m) == {i \in 1..Len(db) : db[i].mentor = m /\ db[i].rating # Null}

RECURSIVE SumRatings(_)
SumRatings(S) ==
  IF S = {} THEN 0
  ELSE LET i == CHOOSE x \in S : TRUE IN db[i].rating + SumRatings(S \ {i})

\* C9: the mentor's stored stats have totalRatings equal to the number of
\* the mentor's rated sessions and averageRating equal to their mean rounded
\* to one decimal.
C9_StatsMatchRatings ==
  \A m \in Mentors :
    RatedOf(m) # {} =>
      /\ stats[m].totalRatings = Cardinality(RatedOf(m))
      /\ 2 * Cardinality(RatedOf(m)) * stats[m].averageRating
           <= 20 * SumRatings(RatedOf(m)) + Cardinality(RatedOf(m))
      /\ 2 * Cardinality(RatedOf(m)) * (stats[m].averageRating + 1)
           > 20 * SumRatings(RatedOf(m)) + Cardinality(RatedOf(m))

\* C3: of two createSession requests for the same mentor with overlapping
\* intervals at most one succeeds: never are the sessions that two requests
\* stored both pending for the same mentor with overlapping intervals.
C3_OneOfTwoBookings ==
  \A j \in Slots, k \in Slots :
    (/\ j # k
     /\ reqs[j].op = "createSession" /\ reqs[j].code = 201
     /\ reqs[k].op = "createSession" /\ reqs[k].code = 201
     /\ reqs[j].id # reqs[k].id
     /\ db[reqs[j].id].mentor = db[reqs[k].id].mentor
     /\ db[reqs[j].id].status = "pending" /\ db[reqs[k].id].status = "pending")
      => ~SessionsOverlap(db[reqs[j].id], db[reqs[k].id])

\* C10: concurrent rateSession calls lose no update: when no rateSession is
\* between its save and its answer, the mentor's stored totalRatings and
\* averageRating are the count and the rounded mean of all stored ratings.
Quiescent == \A k \in Slots : reqs[k].pc \notin {"save", "scan", "write"}

C10_NoLostRating ==
  Quiescent =>
    \A m \in Mentors :
      RatedOf(m) # {} =>
        /\ stats[m].totalRatings = Cardinality(RatedOf(m))
        /\ stats[m].averageRating =
             (20 * SumRatings(RatedOf(m)) + Cardinality(RatedOf(m)))
               \div (2 * Cardinality(RatedOf(m)))

\* the lifecycle timestamps that a session carries
Timestamps(doc) == {f \in {"approvedAt", "declinedAt", "cancelledAt"} : doc[f] # Null}

\* C11: a pending session has none of approvedAt, declinedAt, cancelledAt;
\* a session in any other status has exactly one of them, the one of its
\* status: approvedAt for approved, completed and no-show, declinedAt for
\* rejected (declined), cancelledAt for cancelled.
C11_OneTimestampMatchesStatus ==
  \A id \in 1..Len(db) :
    LET doc == db[id]
    IN IF doc.status = "pending" THEN Timestamps(doc) = {}
       ELSE /\ Cardinality(Timestamps(doc)) = 1
            /\ doc.status \in {"approved", "completed", "no-show"}
                 => Timestamps(doc) = {"approvedAt"}
            /\ doc.status = "rejected" => Timestamps(doc) = {"declinedAt"}
            /\ doc.status = "cancelled" => Timestamps(doc) = {"cancelledAt"}

\* C12: rating, review and ratedAt of a session are all null or all set,
\* and a session that carries them has status completed.
C12_RatingFieldsTogether ==
  \A id \in 1..Len(db) :
    LET doc == db[id]
    IN \/ doc.rating = Null /\ doc.review = NoStr /\ doc.ratedAt = Null
       \/ /\ doc.rating # Null /\ doc.review # NoStr /\ doc.ratedAt # Null
          /\ doc.status = "completed"

\* C13: when its mentor approves a pending session with a meeting link, by
\* approveSession or by respondToSessionRequest with accept, the answer is
\* 200 and the stored session is approved with approvedAt the time of the
\* call; approveSession stores the supplied link.
C13_ApprovePendingSucceeds ==
  \A id \in 1..Len(db) :
    db[id].status = "pending" =>
      LET m == db[id].mentor
          a == approveSession(db, now, m, id, "https://meet")
          r == respondToSessionRequest(db, now, m, id, "accept", NoStr, Null)
      IN /\ a.code = 200
         /\ a.db[id].status = "approved"
         /\ a.db[id].approvedAt = now
         /\ a.db[id].meetingLink = "https://meet"
         /\ r.code = 200
         /\ r.db[id].status = "approved"
         /\ r.db[id].approvedAt = now

\* C14: when its mentor declines a pending session, by declineSession, by
\* respondToSessionRequest with reject or by updateSessionStatus with
\* rejected, the answer is 200 and the stored session is declined (stored
\* as rejected) with declinedAt set and approvedAt and cancelledAt null.
Declined(doc) ==
  /\ doc.status \in {"rejected", "declined"}
  /\ doc.declinedAt # Null
  /\ doc.approvedAt = Null
  /\ doc.cancelledAt = Null

C14_DeclinePendingSucceeds ==
  \A id \in 1..Len(db) :
    db[id].status = "pending" =>
      LET m == db[id].mentor
          d == declineSession(db, now, m, id)
          r == respondToSessionRequest(db, now, m, id, "reject", NoStr, Null)
          u == updateSessionStatus(db, now, m, id, "rejected", NoStr)
      IN /\ d.code = 200 /\ Declined(d.db[id])
         /\ r.code = 200 /\ Declined(r.db[id])
         /\ u.code = 200 /\ Declined(u.db[id])

\* C15: a session with status cancelled has cancelledAt set and cancelledBy
\* set to the role of a participant; every step that takes a session into
\* cancelled leaves it so.
C15_CancelledHasAtAndBy ==
  \A id \in 1..Len(db) :
    db[id].status = "cancelled" =>
      /\ db[id].cancelledAt # Null
      /\ db[id].cancelledBy \in {"student", "mentor"}

\* C16: approveSession, declineSession, respondToSessionRequest and
\* updateSessionStatus on a session answer 403 and leave the sessions as
\* they were for every actor who is not that session's mentor: its student,
\* other students, other mentors.
C16_OnlyMentorChanges ==
  \A id \in 1..Len(db), actor \in Actors :
    actor # db[id].mentor =>
      LET a == approveSession(db, now, actor, id, "https://meet")
          d == declineSession(db, now, actor, id)
          u == updateSessionStatus(db, now, actor, id, "approved", NoStr)
      IN /\ a.code = 403 /\ a.db = db
         /\ d.code = 403 /\ d.db = db
         /\ u.code = 403 /\ u.db = db
         /\ \A action \in {"accept", "reject"} :
              LET r == respondToSessionRequest(db, now, actor, id, action, NoStr, Null)
              IN r.code = 403 /\ r.db = db

\* C17: cancelSession by an authenticated user who is neither the session's
\* student nor its mentor answers 403 and leaves the sessions as they were,
\* in every status and at every distance from scheduledDate.
C17_CancelByStrangerForbidden ==
  \A id \in 1..Len(db), actor \in Actors, reason \in {NoStr, "why"} :
    (actor # db[id].student /\ actor # db[id].mentor) =>
      LET r == cancelSession(db, now, actor, id, reason)
      IN r.code = 403 /\ r.db = db

\* an approved session still outside the cancellation window: its student's
\* cancel would be carried out, the other student's and the other mentor's
\* are refused
C17_Witness ==
  \E id \in 1..Len(db) :
    /\ db[id].status = "approved"
    /\ canBeCancelled(db[id], now)
    /\ cancelSession(db, now, db[id].student, id, NoStr).code = 200
    /\ \E a \in Students, b \in Mentors :
         /\ a # db[id].student /\ cancelSession(db, now, a, id, NoStr).code = 403
         /\ b # db[id].mentor /\ cancelSession(db, now, b, id, NoStr).code = 403

\* C18: rateSession answers 200 only to the session's student on a
\* completed session; with a rating in 1..5, any other caller gets 403 and
\* the student of a session in another status gets 400; a refused call
\* leaves the sessions, the mentor's stats and the update sent to the
\* mentor's document as they were.
C18_RateOnlyStudentOnCompleted ==
  \A id \in 1..Len(db), actor \in Actors,
     rating \in Ratings \cup {0}, review \in {NoStr, "good"} :
    LET r == rateSession(db, stats, lastUpdate, now, actor, id, rating, review)
    IN /\ r.code = 200 => (actor = db[id].student /\ db[id].status = "completed")
       /\ r.code # 200 => (r.db = db /\ r.stats = stats /\ r.lastUpdate = lastUpdate)
       /\ (rating \in Ratings /\ actor # db[id].student) => r.code = 403
       /\ (rating \in Ratings /\ actor = db[id].student /\ db[id].status # "completed")
            => r.code = 400

\* a session rated by its student while completed and since moved to another
\* status, where a rating by the other student is refused with 403 and one
\* by its student with 400
C18_Witness ==
  \E id \in 1..Len(db) :
    /\ db[id].rating \in Ratings
    /\ lastUpdate[db[id].mentor].totalRatings = 1
    /\ db[id].status # "completed"
    /\ rateSession(db, stats, lastUpdate, now, "s2", id, 5, NoStr).code = 403
    /\ rateSession(db, stats, lastUpdate, now, db[id].student, id, 5, NoStr).code = 400

\* C19: the mentor's stored stats are what a recount of the mentor's
\* sessions gives: totalSessions is the number of the mentor's sessions and
\* completedSessions the number of them with status completed.
C19_StatsRecomputable ==
  \A m \in Mentors :
    /\ stats[m].totalSessions = Cardinality({i \in 1..Len(db) : db[i].mentor = m})
    /\ stats[m].completedSessions =
         Cardinality({i \in 1..Len(db) : db[i].mentor = m /\ db[i].status = "completed"})

\* the mentor's aggregate counts every stored rating: in the stored stats,
\* or in the update document that last reached the mentor's User document
Accounted(m) ==
  \/ stats[m].totalRatings = Cardinality(RatedOf(m))
  \/ lastUpdate[m].totalRatings = Cardinality(RatedOf(m))

\* C20: a rateSession call that answered 500 is not partially applied: the
\* session it addressed does not carry a rating that the mentor's aggregate
\* does not count.
C20_FailedRateNotPartial ==
  \A k \in Slots :
    (reqs[k].op = "rateSession" /\ reqs[k].pc = "done" /\ reqs[k].code = 500) =>
      ~(db[reqs[k].id].rating # Null /\ ~Accounted(db[reqs[k].id].mentor))

\* C21: a status update whose status is not one of approved, rejected,
\* completed is refused with 400 (validation) and the stored session is as
\* it was.
C21_StatusOutsideListRefused ==
  \A id \in 1..Len(db), status \in AllStatusInputs \ {"approved", "rejected", "completed"} :
    LET u == updateSessionStatus(db, now, db[id].mentor, id, status, NoStr)
    IN u.code = 400 /\ u.db = db

\* C22: createSession by a student with a scheduledDate not after now
\* answers 400 and stores nothing, whoever the mentor; and every step that
\* stores a new session stores it pending with scheduledDate after now.
C22_StartStrictlyFuture ==
  /\ [](\A actor \in Students, mentorId \in MentorIdInputs,
           scheduledDate \in 0..now, duration \in Durations :
          LET r == createSession(db, now, actor, mentorId, scheduledDate, duration)
          IN r.code = 400 /\ r.db = db)
  /\ [][Len(db') > Len(db) =>
          /\ db'[Len(db')].status = "pending"
          /\ db'[Len(db')].scheduledDate > now]_vars

\* the clock has advanced and a session is stored; a booking of the other
\* mentor that starts now is refused, the same booking one hour later is
\* stored
C22_Witness ==
  \E id \in 1..Len(db), m \in Mentors :
    /\ now > 0
    /\ db[id].scheduledDate > now
    /\ m # db[id].mentor
    /\ Len(db) = 1
    /\ createSession(db, now, "s1", m, now, 1).code = 400
    /\ createSession(db, now, "s1", m, now + 1, 1).code = 201

\* C23: createSession naming a mentorId that is no user or a user who is
\* not a mentor stores nothing and, when the start is in the future,
\* answers 404; naming the deactivated mentor answers 400 and stores
\* nothing; for every proposed start and duration.
C23_UnknownOrInactiveMentor ==
  \A mentorId \in MentorIdInputs, scheduledDate \in 0..MaxStart, duration \in Durations :
    LET r == createSession(db, now, "s1", mentorId, scheduledDate, duration)
    IN /\ (mentorId \notin UserIds \/ role(mentorId) # "mentor") =>
            /\ r.db = db
            /\ r.code \in {400, 404}
            /\ scheduledDate > now => r.code = 404
       /\ mentorId = "m0" => (r.db = db /\ r.code = 400)

\* a stored booking of mentor m1, and bookings for its very interval that
\* name no user, a student and the deactivated mentor
C23_Witness ==
  \E id \in 1..Len(db) :
    /\ db[id].mentor = "m1" /\ Committed(db[id])
    /\ db[id].scheduledDate > now
    /\ createSession(db, now, "s1", "nobody", db[id].scheduledDate, db[id].duration).code = 404
    /\ createSession(db, now, "s1", "s2", db[id].scheduledDate, db[id].duration).code = 404
    /\ createSession(db, now, "s1", "m0", db[id].scheduledDate, db[id].duration).code = 400

\* C24: of a mentor's response (status update, approve, decline) and a
\* participant's cancel that both loaded the same session while it was
\* pending, at most one answers 200, and the stored session carries the
\* cancellation fields exactly when its status is cancelled.
ProviderOps == {"updateSessionStatus", "approveSession", "declineSession"}
LoadedPending(k) ==
  reqs[k].pc = "done" /\ reqs[k].doc.student # NoStr /\ reqs[k].doc.status = "pending"

C24_ResponseCancelRace ==
  \A j \in Slots, k \in Slots :
    (/\ reqs[j].op \in ProviderOps /\ reqs[k].op = "cancelSession"
     /\ reqs[j].id = reqs[k].id
     /\ LoadedPending(j) /\ LoadedPending(k)) =>
      LET doc == db[reqs[k].id]
      IN /\ ~(reqs[j].code = 200 /\ reqs[k].code = 200)
         /\ doc.status = "cancelled" => (doc.cancelledBy # NoStr /\ doc.cancelledAt # Null)
         /\ doc.status \in {"approved", "pending"} =>
              (doc.cancelledBy = NoStr /\ doc.cancelledAt = Null
               /\ doc.cancellationReason = NoStr)

\* C25: of two rateSession calls on the same session, under every
\* interleaving, at most one answers 200 (the other is refused as already
\* rated, so the rating stored first is not overwritten).
C25_OneOfTwoRatings ==
  \A j \in Slots, k \in Slots :
    (/\ j # k
     /\ reqs[j].op = "rateSession" /\ reqs[k].op = "rateSession"
     /\ reqs[j].pc = "done" /\ reqs[k].pc = "done"
     /\ reqs[j].id = reqs[k].id)
      => ~(reqs[j].code = 200 /\ reqs[k].code = 200)

\* C26: a mentor's stored stats change only in a step in which rateSession
\* stored a rating on one of that mentor's sessions; no other operation,
\* a profile update included, changes them.
C26_StatsOnlyByRating ==
  [][\A m \in Mentors :
       stats'[m] # stats[m] =>
         \E id \in 1..Len(db) :
           /\ db[id].mentor = m
           /\ db[id].rating = Null
           /\ db'[id].rating # Null]_vars

\* C27: for every mentor with a rated session, the averageRating and
\* totalRatings of the mentor's dashboard are the ones rateSession computes
\* for that mentor from the stored sessions.
C27_DashboardMatchesRating ==
  \A m \in Mentors :
    RatedOf(m) # {} => getDashboardData(db, m) = ratingUpdate(db, m)

\* C28: cancellationReason and cancelledBy of a session change only in a
\* step that leaves the session cancelled or rejected.
C28_ReasonOnlyWithCancel ==
  [][\A id \in 1..Len(db) :
       (\/ db'[id].cancelledBy # db[id].cancelledBy
        \/ db'[id].cancellationReason # db[id].cancellationReason)
         => db'[id].status \in {"cancelled", "rejected"}]_vars

\* the documents that the handlers and markCompleted hand to save() for the
\* stored session id
DocsToSave(id) ==
  {updateStatusDoc(db[id], status, reason) :
     status \in AllStatusInputs, reason \in {NoStr, "why"}}
  \cup {cancelDoc(db[id], now, r, reason) :
          r \in {"student", "mentor"}, reason \in {NoStr, "why"}}
  \cup {respondDoc(db[id], now, action, NoStr, Null) : action \in {"accept", "reject"}}
  \cup {approveDoc(db[id], now, "https://meet"), declineDoc(db[id], now),
        rateDoc(db[id], now, 5, NoStr), markCompletedDoc(db[id], now)}

C30_CompleteOnlyApproved ==
  [][\A id \in 1..Len(db) :
       db'[id].actualEndTime # db[id].actualEndTime =>
         /\ db[id].status = "approved"
         /\ db'[id].status = "completed"
         /\ db'[id].actualStartTime =
              (IF db[id].actualStartTime # Null THEN db[id].actualStartTime
               ELSE db[id].scheduledDate)
         /\ db'[id].actualDuration =
              60 * (db'[id].actualEndTime - db'[id].actualStartTime)]_vars

====
